---- MODULE Spec2Model ----
(***************************************************************************)
(* One run of the feature-engineering pipeline of                          *)
(* src/src/feature_engineering.py: main() and the four components it       *)
(* calls (load_params, load_data, apply_tfidf, save_data).                 *)
(*                                                                         *)
(* A text cell is the set of vocabulary candidates (tokens) it contains;   *)
(* the empty set is the empty string that fillna('') leaves.  A cell of a  *)
(* TF-IDF matrix is the term's count in the document (0 or 1 here): the    *)
(* weight the library computes is positive exactly when the count is.      *)
(***************************************************************************)
EXTENDS Integers, Sequences, FiniteSets, TLC

\* ------------------------------------------------------------------ bounds
MaxTrainRows == 2
MaxTestRows == 1
MaxFeatures == 2

\* The tokens a text may hold, in the (alphabetical) order in which
\* get_feature_names_out lists them.  A token is referred to by its index.
Terms == <<"label", "zoo">>
TermIds == 1..Len(Terms)
Targets == {0, 1}

\* ------------------------------------------------------------- data values
Docs == SUBSET TermIds
Rows == [text : Docs, target : Targets]

RECURSIVE SeqsUpTo(_, _)
SeqsUpTo(S, n) ==
    IF n = 0 THEN {<<>>}
    ELSE LET shorter == SeqsUpTo(S, n - 1)
         IN  shorter \cup {Append(s, x) : s \in {t \in shorter : Len(t) = n - 1}, x \in S}

\* What pd.read_csv + fillna('') can hand back: a frame with the 'text' and
\* 'target' columns, or one that lacks them (has_cols = FALSE).
DataFrames(n) ==
    {[has_cols |-> TRUE, rows |-> r] : r \in SeqsUpTo(Rows, n)}
        \cup {[has_cols |-> FALSE, rows |-> <<>>]}

NoFrame == [has_cols |-> FALSE, rows |-> <<>>]
NoTable == [columns |-> <<>>, rows |-> <<>>]
NoMatrix == <<>>
NoParams == [none |-> TRUE, has_key |-> FALSE, max_features |-> 0]
NoVectorizer == [max_features |-> 0, vocabulary |-> <<>>, n_fit |-> 0, n_transform |-> 0]
NoExc == "none"

\* What yaml.safe_load can return: None (an empty document), a mapping without
\* the feature_engineering.max_features path, or one holding an integer there.
ParamsValues ==
    {[none |-> TRUE, has_key |-> FALSE, max_features |-> 0],
     [none |-> FALSE, has_key |-> FALSE, max_features |-> 0]}
        \cup {[none |-> FALSE, has_key |-> TRUE, max_features |-> m] : m \in 0..MaxFeatures}

TrainPath == "train_tfidf.csv"
TestPath == "test_tfidf.csv"
OutPaths == {TrainPath, TestPath}

StageOrder ==
    <<"load_params", "read_max_features", "load_data_train", "load_data_test",
      "apply_tfidf", "save_data_train", "save_data_test">>

VARIABLES
    pc,            \* position of main
    params,        \* main's params
    max_features,  \* main's max_features
    train_data, test_data,         \* main's frames
    vectorizer,    \* apply_tfidf's TfidfVectorizer
    X_train_tfidf, X_test_tfidf,   \* apply_tfidf's matrices
    train_df, test_df,             \* the feature tables
    files,         \* state of the two output files
    log,           \* records handed to the logger
    stdout,        \* what print wrote
    calls,         \* the stages run so far and how each ended
    exc            \* the exception in flight in main's try block

vars == <<pc, params, max_features, train_data, test_data, vectorizer,
          X_train_tfidf, X_test_tfidf, train_df, test_df, files, log, stdout,
          calls, exc>>

\* ----------------------------------------------------------------- helpers
Debug(m) == [level |-> "DEBUG", msg |-> m]
Error(m) == [level |-> "ERROR", msg |-> m]

\* One stage of main, as it ended: error is the failure detected inside it
\* ("none" if there was none), logged whether the stage logged it at error
\* severity, outcome whether control came back by return or by raise.
Call(stage, error, logged, outcome) ==
    [stage |-> stage, error |-> error, logged |-> logged, outcome |-> outcome]

Returned(stage) == Call(stage, "none", FALSE, "returned")

RECURSIVE SortedSeq(_)
SortedSeq(S) ==
    IF S = {} THEN <<>>
    ELSE LET m == CHOOSE x \in S : \A y \in S : x <= y
         IN  <<m>> \o SortedSeq(S \ {m})

Range(s) == {s[i] : i \in 1..Len(s)}

\* ------------------------------------------------- the vectorizer (library)
TextCol(df) == [i \in 1..Len(df.rows) |-> df.rows[i].text]
TargetCol(df) == [i \in 1..Len(df.rows) |-> df.rows[i].target]

\* Tokens seen in a corpus, and how often each occurs over the corpus.
CorpusTerms(docs) == {t \in TermIds : \E i \in 1..Len(docs) : t \in docs[i]}
TermFreq(docs, t) == Cardinality({i \in 1..Len(docs) : t \in docs[i]})

\* LimitFeatures keeping one token too many.
LimitFeaturesOffByOne(docs, limit) ==
    LET all == CorpusTerms(docs)
        Before(u, t) == \/ TermFreq(docs, u) > TermFreq(docs, t)
                        \/ TermFreq(docs, u) = TermFreq(docs, t) /\ u < t
        Rank(t) == Cardinality({u \in all : Before(u, t)})
    IN  SortedSeq({t \in all : Rank(t) <= limit})

\* The vocabulary a fit keeps: every token of the corpus, cut down to the
\* limit most frequent ones when there are more than limit (ties go to the
\* token that sorts first), listed in sorted order.
LimitFeatures(docs, limit) ==
    LET all == CorpusTerms(docs)
        Before(u, t) == \/ TermFreq(docs, u) > TermFreq(docs, t)
                        \/ TermFreq(docs, u) = TermFreq(docs, t) /\ u < t
        Rank(t) == Cardinality({u \in all : Before(u, t)})
    IN  IF Cardinality(all) > limit
        THEN SortedSeq({t \in all : Rank(t) < limit})
        ELSE SortedSeq(all)

\* TfidfVectorizer(max_features=max_features)
NewVectorizer(mf) ==
    [max_features |-> mf, vocabulary |-> <<>>, n_fit |-> 0, n_transform |-> 0]

\* The document-term matrix of docs over a fixed vocabulary: a token outside
\* the vocabulary has no column and adds nothing.
TermMatrix(vocabulary, docs) ==
    [i \in 1..Len(docs) |->
        [j \in 1..Len(vocabulary) |-> IF vocabulary[j] \in docs[i] THEN 1 ELSE 0]]

\* vectorizer.fit_transform(docs) raises ValueError for a max_features that is
\* not a positive integer and for a corpus without any token.
FitFails(vec, docs) == vec.max_features < 1 \/ CorpusTerms(docs) = {}

\* vectorizer.fit_transform(docs): the vectorizer afterwards.
Fitted(vec, docs) ==
    [vec EXCEPT !.vocabulary = LimitFeatures(docs, vec.max_features),
                !.n_fit = @ + 1]

\* Transformed fitting the vectorizer again on the documents it is given.
TransformedRefits(vec, docs) ==
    [vec EXCEPT !.vocabulary = LimitFeatures(docs, vec.max_features),
                !.n_fit = @ + 1,
                !.n_transform = @ + 1]

\* vectorizer.transform(docs): the vectorizer afterwards.
Transformed(vec, docs) == [vec EXCEPT !.n_transform = @ + 1]

\* vectorizer.get_feature_names_out()
FeatureNames(vec) == [j \in 1..Len(vec.vocabulary) |-> Terms[vec.vocabulary[j]]]

\* ------------------------------------------------------ the frames (library)
\* pd.DataFrame(matrix, columns=names)
NewTable(matrix, names) == [columns |-> names, rows |-> matrix]

\* df[name] = values: an existing column of that name is overwritten in
\* place, otherwise the column is appended.
SetColumn(df, name, values) ==
    IF \E j \in 1..Len(df.columns) : df.columns[j] = name
    THEN [df EXCEPT !.rows =
            [i \in 1..Len(df.rows) |->
                [j \in 1..Len(df.columns) |->
                    IF df.columns[j] = name THEN values[i] ELSE df.rows[i][j]]]]
    ELSE [columns |-> Append(df.columns, name),
          rows |-> [i \in 1..Len(df.rows) |-> Append(df.rows[i], values[i])]]

\* -------------------------------------------------------------------- Init
Init ==
    /\ pc = "load_params"
    /\ params = NoParams
    /\ max_features = 0
    /\ train_data = NoFrame
    /\ test_data = NoFrame
    /\ vectorizer = NoVectorizer
    /\ X_train_tfidf = NoMatrix
    /\ X_test_tfidf = NoMatrix
    /\ train_df = NoTable
    /\ test_df = NoTable
    /\ files \in [OutPaths -> {"absent", "stale"}]
    /\ log = <<>>
    /\ stdout = <<>>
    /\ calls = <<>>
    /\ exc = NoExc

\* ------------------------------------------------------------------- main
\* Handler catching the I/O errors only: anything else leaves main.
HandlerOSErrorOnly(kind) ==
    IF kind \in {"OSError", "FileNotFoundError", "PermissionError"} THEN "except" ELSE "done"

\* `except Exception` of main: where control goes when kind is raised inside
\* the try block.
Handler(kind) == "except"

\* A stage of main ends by raising kind.
Raises(stage, kind, logged) ==
    /\ calls' = Append(calls, Call(stage, kind, logged, "raised"))
    /\ exc' = kind
    /\ pc' = Handler(kind)

\* A stage of main returns and main goes on at next.
Returns(stage, next) ==
    /\ calls' = Append(calls, Returned(stage))
    /\ exc' = exc
    /\ pc' = next

\* LoadParamsRaises without its raise: the error is logged and None returned.
LoadParamsRaisesNot(kind, msg) ==
    /\ log' = Append(log, Error(msg))
    /\ params' = [none |-> TRUE, has_key |-> FALSE, max_features |-> 0]
    /\ calls' = Append(calls, [stage |-> "load_params", error |-> kind,
                               logged |-> TRUE, outcome |-> "returned"])
    /\ exc' = exc
    /\ pc' = "read_max_features"

\* load_params, lines 51-56: FileNotFoundError and yaml.YAMLError are logged
\* and raised again.
LoadParamsRaises(kind, msg) ==
    /\ log' = Append(log, Error(msg))
    /\ params' = params
    /\ Raises("load_params", kind, TRUE)

\* LoadParamsSwallows with the raise the other branches have.
LoadParamsSwallowsNot(kind, msg) ==
    /\ log' = Append(log, Error(msg))
    /\ params' = params
    /\ calls' = Append(calls, [stage |-> "load_params", error |-> kind,
                               logged |-> TRUE, outcome |-> "raised"])
    /\ exc' = kind
    /\ pc' = "except"

\* load_params, lines 57-58: any other exception is logged and the function
\* falls off its end, so the caller gets None.
LoadParamsSwallows(kind, msg) ==
    /\ log' = Append(log, Error(msg))
    /\ params' = [none |-> TRUE, has_key |-> FALSE, max_features |-> 0]
    /\ calls' = Append(calls, Call("load_params", kind, TRUE, "returned"))
    /\ exc' = exc
    /\ pc' = "read_max_features"

\* The failures of open() that are neither FileNotFoundError nor a YAML error.
OtherParamErrors == {"PermissionError"}

\* load_params(params_path='params.yaml')
LoadParams ==
    /\ pc = "load_params"
    /\ \/ \E p \in ParamsValues :
            /\ params' = p
            /\ log' = Append(log, Debug("Parameters retrived"))
            /\ Returns("load_params", "read_max_features")
       \/ LoadParamsRaises("FileNotFoundError", "File not found")
       \/ LoadParamsRaises("YAMLError", "Yaml error")
       \/ \E kind \in OtherParamErrors : LoadParamsSwallows(kind, "Unexpected error")
    /\ UNCHANGED <<max_features, train_data, test_data, vectorizer, X_train_tfidf,
                   X_test_tfidf, train_df, test_df, files, stdout>>

\* max_features = params['feature_engineering']['max_features']
ReadMaxFeatures ==
    /\ pc = "read_max_features"
    /\ \/ /\ params.none
          /\ Raises("read_max_features", "TypeError", FALSE)
          /\ max_features' = max_features
       \/ /\ ~params.none /\ ~params.has_key
          /\ Raises("read_max_features", "KeyError", FALSE)
          /\ max_features' = max_features
       \/ /\ ~params.none /\ params.has_key
          /\ max_features' = params.max_features
          /\ Returns("read_max_features", "load_data_train")
    /\ UNCHANGED <<params, train_data, test_data, vectorizer, X_train_tfidf,
                   X_test_tfidf, train_df, test_df, files, log, stdout>>

\* load_data(file_path): the frame read, or the failure raised.
LoadData(stage, n, next, df, dfNew) ==
    \/ \E d \in DataFrames(n) :
          /\ dfNew = d
          /\ log' = Append(log, Debug("Data loaded and NaNs filled"))
          /\ Returns(stage, next)
    \/ /\ log' = Append(log, Error("Failed to parse the CSV file"))
       /\ Raises(stage, "ParserError", TRUE)
       /\ dfNew = df
    \/ /\ log' = Append(log, Error("Unexpected error occurred while loading the data"))
       /\ Raises(stage, "FileNotFoundError", TRUE)
       /\ dfNew = df

\* train_data = load_data(train_data_path)
LoadTrain ==
    /\ pc = "load_data_train"
    /\ LoadData("load_data_train", MaxTrainRows, "load_data_test", train_data, train_data')
    /\ UNCHANGED <<params, max_features, test_data, vectorizer, X_train_tfidf,
                   X_test_tfidf, train_df, test_df, files, stdout>>

\* test_data = load_data(test_data_path)
LoadTest ==
    /\ pc = "load_data_test"
    /\ LoadData("load_data_test", MaxTestRows, "apply_tfidf", test_data, test_data')
    /\ UNCHANGED <<params, max_features, train_data, vectorizer, X_train_tfidf,
                   X_test_tfidf, train_df, test_df, files, stdout>>

\* apply_tfidf fails: the error is logged and raised again.
TfidfRaises(kind) ==
    /\ log' = Append(log, Error("Error during TF-IDF transformation"))
    /\ Raises("apply_tfidf", kind, TRUE)

\* apply_tfidf, lines 65-70: the vectorizer is built and the text and target
\* columns are taken from both frames.
TfidfBegin ==
    /\ pc = "apply_tfidf"
    /\ vectorizer' = NewVectorizer(max_features)
    /\ \/ /\ train_data.has_cols /\ test_data.has_cols
          /\ pc' = "fit_transform"
          /\ UNCHANGED <<log, calls, exc>>
       \/ /\ ~(train_data.has_cols /\ test_data.has_cols)
          /\ TfidfRaises("KeyError")
    /\ UNCHANGED <<params, max_features, train_data, test_data, X_train_tfidf,
                   X_test_tfidf, train_df, test_df, files, stdout>>

\* X_train_tfidf = vectorizer.fit_transform(X_train)
TfidfFitTransform ==
    /\ pc = "fit_transform"
    /\ \/ /\ FitFails(vectorizer, TextCol(train_data))
          /\ TfidfRaises("ValueError")
          /\ UNCHANGED <<vectorizer, X_train_tfidf>>
       \/ /\ ~FitFails(vectorizer, TextCol(train_data))
          /\ vectorizer' = Fitted(vectorizer, TextCol(train_data))
          /\ X_train_tfidf' = TermMatrix(vectorizer'.vocabulary, TextCol(train_data))
          /\ pc' = "transform"
          /\ UNCHANGED <<log, calls, exc>>
    /\ UNCHANGED <<params, max_features, train_data, test_data, X_test_tfidf,
                   train_df, test_df, files, stdout>>

\* X_test_tfidf = vectorizer.transform(X_test)
TfidfTransform ==
    /\ pc = "transform"
    /\ vectorizer' = Transformed(vectorizer, TextCol(test_data))
    /\ X_test_tfidf' = TermMatrix(vectorizer'.vocabulary, TextCol(test_data))
    /\ pc' = "assemble"
    /\ UNCHANGED <<params, max_features, train_data, test_data, X_train_tfidf,
                   train_df, test_df, files, log, stdout, calls, exc>>

\* apply_tfidf, lines 75-84: the two feature tables.
TrainTable(names) == SetColumn(NewTable(X_train_tfidf, names), "label", TargetCol(train_data))
\* TestTable labelled with the training targets.
TestTableCrossed(names) == SetColumn(NewTable(X_test_tfidf, names), "label", TargetCol(train_data))

TestTable(names) == SetColumn(NewTable(X_test_tfidf, names), "label", TargetCol(test_data))

TfidfAssemble ==
    /\ pc = "assemble"
    /\ train_df' = TrainTable(FeatureNames(vectorizer))
    /\ test_df' = TestTable(FeatureNames(vectorizer))
    /\ log' = Append(log, Debug("TF-IDF applied"))
    /\ Returns("apply_tfidf", "save_data_train")
    /\ UNCHANGED <<params, max_features, train_data, test_data, vectorizer,
                   X_train_tfidf, X_test_tfidf, files, stdout>>

\* SaveData writing every table to the test path.
SaveDataOnePath(stage, path, next) ==
    \/ /\ files' = [files EXCEPT ![TestPath] = "written"]
       /\ log' = Append(log, Debug("Data saved"))
       /\ calls' = Append(calls, [stage |-> stage, error |-> "none",
                                  logged |-> FALSE, outcome |-> "returned"])
       /\ exc' = exc
       /\ pc' = next
    \/ /\ files' = files
       /\ log' = Append(log, Error("Unexpected error occurred while saving the data"))
       /\ calls' = Append(calls, [stage |-> stage, error |-> "OSError",
                                  logged |-> TRUE, outcome |-> "raised"])
       /\ exc' = "OSError"
       /\ pc' = "except"

\* save_data(df, file_path): the directory is made and the file written; a
\* failure before the file is opened leaves the path as it was, a failure
\* while writing leaves a partial file.
SaveData(stage, path, next) ==
    \/ /\ files' = [files EXCEPT ![path] = "written"]
       /\ log' = Append(log, Debug("Data saved"))
       /\ Returns(stage, next)
    \/ /\ files' = files
       /\ log' = Append(log, Error("Unexpected error occurred while saving the data"))
       /\ Raises(stage, "OSError", TRUE)
    \/ /\ files' = [files EXCEPT ![path] = "partial"]
       /\ log' = Append(log, Error("Unexpected error occurred while saving the data"))
       /\ Raises(stage, "OSError", TRUE)

\* save_data(train_df, './data/processed/train_tfidf.csv')
SaveTrain ==
    /\ pc = "save_data_train"
    /\ SaveData("save_data_train", TrainPath, "save_data_test")
    /\ UNCHANGED <<params, max_features, train_data, test_data, vectorizer,
                   X_train_tfidf, X_test_tfidf, train_df, test_df, stdout>>

\* save_data(test_df, './data/processed/test_tfidf.csv')
SaveTest ==
    /\ pc = "save_data_test"
    /\ SaveData("save_data_test", TestPath, "log_success")
    /\ UNCHANGED <<params, max_features, train_data, test_data, vectorizer,
                   X_train_tfidf, X_test_tfidf, train_df, test_df, stdout>>

SuccessMsg == "Feature engineering process completed successfully."
FailureMsg == "Failed to complete the feature engineering process"

\* logger.debug('Feature engineering process completed successfully.')
MainSuccess ==
    /\ pc = "log_success"
    /\ log' = Append(log, Debug(SuccessMsg))
    /\ pc' = "done"
    /\ UNCHANGED <<params, max_features, train_data, test_data, vectorizer,
                   X_train_tfidf, X_test_tfidf, train_df, test_df, files, stdout,
                   calls, exc>>

\* except Exception as e: the error is logged and printed, and main returns.
MainExcept ==
    /\ pc = "except"
    /\ log' = Append(log, Error(FailureMsg))
    /\ stdout' = Append(stdout, exc)
    /\ exc' = NoExc
    /\ pc' = "done"
    /\ UNCHANGED <<params, max_features, train_data, test_data, vectorizer,
                   X_train_tfidf, X_test_tfidf, train_df, test_df, files, calls>>

Next ==
    \/ LoadParams
    \/ ReadMaxFeatures
    \/ LoadTrain
    \/ LoadTest
    \/ TfidfBegin
    \/ TfidfFitTransform
    \/ TfidfTransform
    \/ TfidfAssemble
    \/ SaveTrain
    \/ SaveTest
    \/ MainSuccess
    \/ MainExcept

Spec == Init /\ [][Next]_vars

\* ============================================================== properties
Last(s) == s[Len(s)]
Count(s, x) == Cardinality({i \in 1..Len(s) : s[i] = x})
Logged(entry) == \E i \in 1..Len(log) : log[i] = entry
ComponentStages ==
    {"load_params", "load_data_train", "load_data_test", "apply_tfidf",
     "save_data_train", "save_data_test"}
Ended(stage, outcome) ==
    \E i \in 1..Len(calls) : calls[i].stage = stage /\ calls[i].outcome = outcome
\* The column of df named name (the first one, should there be several).
Column(df, name) ==
    LET j == CHOOSE k \in 1..Len(df.columns) :
                 df.columns[k] = name /\ \A h \in 1..(k - 1) : df.columns[h] # name
    IN  [i \in 1..Len(df.rows) |-> df.rows[i][j]]
ApplySucceeded == Ended("apply_tfidf", "returned")
Touched(path) == files[path] \in {"written", "partial"}
DataLoadedLogged ==
    \E i \in 1..Len(log) : log[i].msg \in {"Data loaded and NaNs filled",
                                          "Failed to parse the CSV file",
                                          "Unexpected error occurred while loading the data"}

\* C1: the stages run in the fixed order load_params, read max_features,
\* load_data(train), load_data(test), apply_tfidf, save_data(train),
\* save_data(test), none twice; a stage runs only if every stage before it
\* ended without an error, so nothing runs after the first failing stage.
C1_StagesInOrderUntilFirstFailure ==
    /\ Len(calls) <= Len(StageOrder)
    /\ \A i \in 1..Len(calls) : calls[i].stage = StageOrder[i]
    /\ \A i \in 1..(Len(calls) - 1) : calls[i].error = "none"

\* C2: when the parameter file does not exist, load_params logs the
\* not-found error and raises, and the run ends without load_data,
\* apply_tfidf or save_data having been called.
C2_MissingParamsAbortsBeforeLoading ==
    (Len(calls) >= 1 /\ calls[1].error = "FileNotFoundError") =>
        /\ calls[1] = Call("load_params", "FileNotFoundError", TRUE, "raised")
        /\ Logged(Error("File not found"))
        /\ Len(calls) = 1
        /\ pc \in {"except", "done"}
        /\ train_data = NoFrame /\ test_data = NoFrame
        /\ ~DataLoadedLogged
        /\ vectorizer = NoVectorizer /\ train_df = NoTable /\ test_df = NoTable
        /\ \A p \in OutPaths : ~Touched(p)

C2_Witness ==
    /\ pc = "done"
    /\ Len(calls) = 1
    /\ calls[1].error = "FileNotFoundError"

\* C3: a component in which a failure was detected has logged it at error
\* severity and has raised it again: it has not returned.
C3_ComponentsLogAndReraise ==
    \A i \in 1..Len(calls) :
        (calls[i].stage \in ComponentStages /\ calls[i].error # "none") =>
            /\ calls[i].logged
            /\ calls[i].outcome = "raised"

\* C4: a failure raised by a stage is caught once by main's handler, which
\* logs the final error message and prints the error; no exception leaves
\* main; the success message is logged only when no stage failed.
C4_TopLevelCatchesOnce ==
    /\ Count(log, Error(FailureMsg)) <= 1
    /\ Len(stdout) = Count(log, Error(FailureMsg))
    /\ pc = "done" => exc = NoExc
    /\ (pc = "done" /\ \E i \in 1..Len(calls) : calls[i].outcome = "raised") =>
          /\ Last(log) = Error(FailureMsg)
          /\ stdout = <<Last(calls).error>>
          /\ ~Logged(Debug(SuccessMsg))
    /\ Logged(Debug(SuccessMsg)) =>
          /\ Len(calls) = Len(StageOrder)
          /\ \A i \in 1..Len(calls) : calls[i].error = "none" /\ calls[i].outcome = "returned"
          /\ stdout = <<>>
    /\ pc = "done" => (Logged(Debug(SuccessMsg)) \/ Logged(Error(FailureMsg)))

C4_Witness ==
    /\ pc = "done"
    /\ Len(calls) = Len(StageOrder)
    /\ Last(calls).outcome = "raised"
    /\ stdout = <<"OSError">>

\* C5: the vectorizer is fitted once, on the training text, before the test
\* text is transformed; its vocabulary holds tokens of the training text only
\* and transforming the test text leaves the vocabulary as it was.
C5_VocabularyFromTrainOnly ==
    /\ [](/\ vectorizer.n_transform >= 1 => vectorizer.n_fit = 1
          /\ vectorizer.n_fit <= 1
          /\ pc = "transform" => vectorizer.n_fit = 1 /\ vectorizer.n_transform = 0
          /\ Range(vectorizer.vocabulary) \subseteq CorpusTerms(TextCol(train_data))
          /\ pc = "assemble" =>
                \A i \in 1..Len(X_test_tfidf) :
                    Len(X_test_tfidf[i]) = Len(vectorizer.vocabulary))
    /\ [][pc = "transform" => vectorizer'.vocabulary = vectorizer.vocabulary]_vars

C5_Witness ==
    /\ pc = "assemble"
    /\ vectorizer.n_transform = 1
    /\ Len(vectorizer.vocabulary) >= 1
    /\ \E t \in CorpusTerms(TextCol(test_data)) : t \notin CorpusTerms(TextCol(train_data))

\* C6: when apply_tfidf has succeeded, each feature table has as many rows
\* as its input frame and its label column is that frame's target column,
\* row for row: train from train, test from test.
C6_LabelsFollowTargets ==
    ApplySucceeded =>
        /\ Len(train_df.rows) = Len(train_data.rows)
        /\ Len(test_df.rows) = Len(test_data.rows)
        /\ Column(train_df, "label") = TargetCol(train_data)
        /\ Column(test_df, "label") = TargetCol(test_data)

C6_Witness ==
    /\ ApplySucceeded
    /\ Len(train_data.rows) = 2
    /\ train_data.rows[1].target # train_data.rows[2].target
    /\ Len(test_data.rows) = 1
    /\ test_data.rows[1].target # train_data.rows[1].target

\* C7: when apply_tfidf has succeeded, both feature tables have one column
\* per vocabulary term followed by one last column named label, |V| + 1
\* columns in all, and the same column list.
C7_VocabularyColumnsThenLabel ==
    ApplySucceeded =>
        /\ train_df.columns = Append(FeatureNames(vectorizer), "label")
        /\ Len(train_df.columns) = Len(vectorizer.vocabulary) + 1
        /\ test_df.columns = train_df.columns

\* C8: the fitted vocabulary has at most as many terms as the value read
\* from feature_engineering.max_features, and that value is what main holds
\* and what the vectorizer is built with.
C8_VocabularyWithinMaxFeatures ==
    /\ Ended("read_max_features", "returned") => max_features = params.max_features
    /\ pc \in {"fit_transform", "transform", "assemble"} =>
          vectorizer.max_features = params.max_features
    /\ vectorizer.n_fit >= 1 =>
          /\ vectorizer.max_features = params.max_features
          /\ Len(vectorizer.vocabulary) <= params.max_features

C8_Witness ==
    /\ vectorizer.n_fit = 1
    /\ Cardinality(CorpusTerms(TextCol(train_data))) > params.max_features
    /\ Len(vectorizer.vocabulary) = params.max_features

\* C9: when load_params hits an error that is neither not-found nor a YAML
\* error, it logs it and returns None; the lookup of max_features then fails
\* with another error, which is the one main reports; no frame is loaded and
\* no output file is written.
C9_SwallowedParamErrorSurfacesAsLookupError ==
    (Len(calls) >= 1 /\ calls[1].error \in OtherParamErrors) =>
        /\ calls[1].stage = "load_params"
        /\ calls[1].logged /\ calls[1].outcome = "returned"
        /\ Logged(Error("Unexpected error"))
        /\ params.none
        /\ Len(calls) <= 2
        /\ Len(calls) = 2 =>
              /\ calls[2].stage = "read_max_features"
              /\ calls[2].outcome = "raised"
              /\ calls[2].error # calls[1].error
        /\ pc \in {"read_max_features", "except", "done"}
        /\ pc = "done" => Len(calls) = 2 /\ stdout = <<calls[2].error>>
        /\ train_data = NoFrame /\ test_data = NoFrame
        /\ ~DataLoadedLogged
        /\ \A p \in OutPaths : ~Touched(p)

C9_Witness ==
    /\ pc = "done"
    /\ Len(calls) = 2
    /\ calls[1].error = "PermissionError"
    /\ stdout = <<"TypeError">>

\* C10 as stated: an output file is written only after the parameters and
\* both frames were loaded and apply_tfidf succeeded; the test file only
\* after the train file was written; and a run whose save of the test table
\* fails ends with the train file present and the test file absent.
C10_TestFileAbsentAfterFailedSave ==
    /\ (\E p \in OutPaths : Touched(p)) =>
          /\ Ended("load_params", "returned")
          /\ Ended("load_data_train", "returned")
          /\ Ended("load_data_test", "returned")
          /\ ApplySucceeded
    /\ Touched(TestPath) => files[TrainPath] = "written"
    /\ (pc = "done" /\ Ended("save_data_test", "raised")) =>
          /\ files[TrainPath] = "written"
          /\ files[TestPath] = "absent"

\* C10, amended: as above, but a run whose save of the test table fails ends
\* with the train file written and the test file not completely written by
\* this run: absent, left by an earlier run, or partial.
C10_TestFileNotWrittenAfterFailedSave ==
    /\ (\E p \in OutPaths : Touched(p)) =>
          /\ Ended("load_params", "returned")
          /\ Ended("load_data_train", "returned")
          /\ Ended("load_data_test", "returned")
          /\ ApplySucceeded
          /\ ~params.none /\ params.has_key
          /\ train_data.has_cols /\ test_data.has_cols
    /\ Touched(TestPath) => files[TrainPath] = "written"
    /\ (pc = "done" /\ Ended("save_data_test", "raised")) =>
          /\ files[TrainPath] = "written"
          /\ files[TestPath] \in {"absent", "stale", "partial"}

C10_Witness ==
    /\ pc = "done"
    /\ Ended("save_data_test", "raised")
    /\ files[TrainPath] = "written"
    /\ files[TestPath] = "partial"

====
